---- MODULE Spec2Model ----
(***************************************************************************)
(* superdu: reduction of cumulative du measurements to exclusive sizes     *)
(* and pruning of small directories into their nearest present ancestor.   *)
(*                                                                         *)
(* A path is the sequence of its components: <<>> is "/", <<"a","c">> is   *)
(* "/a/c".  A raw (input) path may be relative and may hold "." and "..".  *)
(* A Python dict is an association list in insertion order: a sequence of  *)
(* records [k |-> key, v |-> value] without duplicate keys.                *)
(***************************************************************************)
EXTENDS Integers, Sequences, FiniteSets, TLC

VARIABLES tuples, thresh, pc, dirs, todo, exclusive, processed,
          unprocessed, branches, i, dir_, to_prune, value, sorted_dirs

vars == <<tuples, thresh, pc, dirs, todo, exclusive, processed,
          unprocessed, branches, i, dir_, to_prune, value, sorted_dirs>>

(***************************************************************************)
(* Bounds of the checked inputs                                            *)
(***************************************************************************)
MaxEntries == 3
MaxSize == 1

(***************************************************************************)
(* Paths                                                                   *)
(***************************************************************************)
ROOT == <<>>

\* the process's working directory, against which relative paths resolve
cwd == <<"a">>

\* number of characters of a path component
NameLen(c) == IF c = "ccc" THEN 3 ELSE 1

\* len(path): number of characters of the canonical path string
RECURSIVE CompsLen(_)
CompsLen(p) == IF p = <<>> THEN 0 ELSE 1 + NameLen(Head(p)) + CompsLen(Tail(p))

len(p) == IF p = ROOT THEN 1 ELSE CompsLen(p)

\* os.path.dirname on a canonical absolute path
dirname(p) == IF p = ROOT THEN ROOT ELSE SubSeq(p, 1, Len(p) - 1)

\* os.path.normpath on the components of an absolute path
RECURSIVE normpath(_, _)
normpath(done, rest) ==
    IF rest = <<>> THEN done
    ELSE LET c == Head(rest) IN
         IF c = "." THEN normpath(done, Tail(rest))
         ELSE IF c = ".."
              THEN normpath(IF done = <<>> THEN <<>>
                            ELSE SubSeq(done, 1, Len(done) - 1), Tail(rest))
              ELSE normpath(Append(done, c), Tail(rest))

\* os.path.abspath: join with the working directory unless absolute, normalise
abspath(raw) == normpath(<<>>, IF raw.rel THEN cwd \o raw.comps ELSE raw.comps)

(***************************************************************************)
(* Integers written in decimal                                             *)
(***************************************************************************)
Digits == <<"0", "1", "2", "3", "4", "5", "6", "7", "8", "9">>

DigitVal(ch) == (CHOOSE n \in 1..10 : Digits[n] = ch) - 1

RECURSIVE ParseDigits(_, _)
ParseDigits(acc, s) ==
    IF s = <<>> THEN acc ELSE ParseDigits(10 * acc + DigitVal(Head(s)), Tail(s))

\* int(size) of a string of decimal digits with an optional sign
int(s) == IF s # <<>> /\ Head(s) = "-" THEN 0 - ParseDigits(0, Tail(s))
          ELSE ParseDigits(0, s)

(***************************************************************************)
(* dict operations                                                         *)
(***************************************************************************)
Keys(d) == {d[n].k : n \in 1..Len(d)}

KeyList(d) == [n \in 1..Len(d) |-> d[n].k]

Has(d, key) == \E n \in 1..Len(d) : d[n].k = key

Get(d, key) == d[CHOOSE n \in 1..Len(d) : d[n].k = key].v

Put(d, key, val) ==
    IF Has(d, key)
    THEN [n \in 1..Len(d) |-> IF d[n].k = key THEN [k |-> key, v |-> val] ELSE d[n]]
    ELSE Append(d, [k |-> key, v |-> val])

Del(d, key) == SelectSeq(d, LAMBDA e : e.k # key)

(***************************************************************************)
(* process_du_output, line 80: the dict comprehension                      *)
(***************************************************************************)
\* the first pair of a path wins: a later pair of the same path is dropped
RECURSIVE BuildDirs_FirstWins(_, _)
BuildDirs_FirstWins(d, ts) ==
    IF ts = <<>> THEN d
    ELSE BuildDirs_FirstWins(
             IF Has(d, abspath(Head(ts)[2])) THEN d
             ELSE Put(d, abspath(Head(ts)[2]), int(Head(ts)[1])),
             Tail(ts))

RECURSIVE BuildDirs(_, _)
BuildDirs(d, ts) ==
    IF ts = <<>> THEN d
    ELSE BuildDirs(Put(d, abspath(Head(ts)[2]), int(Head(ts)[1])), Tail(ts))

(***************************************************************************)
(* sorted(dirs, key=len, reverse=True): stable, longest paths first        *)
(***************************************************************************)
RECURSIVE ByLenDesc(_, _)
ByLenDesc(ks, n) ==
    IF n = 0 THEN <<>>
    ELSE SelectSeq(ks, LAMBDA p : len(p) = n) \o ByLenDesc(ks, n - 1)

MaxLenOf(ks) == IF ks = <<>> THEN 0
                ELSE CHOOSE m \in {len(ks[n]) : n \in 1..Len(ks)} :
                        \A n \in 1..Len(ks) : len(ks[n]) <= m

\* the order reversed: shortest paths first
sorted_by_len(ks) ==
    LET d == ByLenDesc(ks, MaxLenOf(ks))
    IN  [n \in 1..Len(d) |-> d[Len(d) + 1 - n]]

\* no sort: "for dir_ in dirs", the order of the mapping
unsorted(ks) == ks

sorted_by_len_reverse(ks) == ByLenDesc(ks, MaxLenOf(ks))

(***************************************************************************)
(* remove_from_parents                                                     *)
(***************************************************************************)
\* the walk stops after the first present parent ("break" after line 61)
RemoveWalk_StopAtFirst(d, cur, val) ==
    LET par == dirname(cur) IN
    IF par = cur THEN d
    ELSE IF Has(d, par) THEN Put(d, par, Get(d, par) - val) ELSE d

RECURSIVE RemoveWalk(_, _, _)
RemoveWalk(d, cur, val) ==
    LET par == dirname(cur) IN
    IF par = cur THEN d
    ELSE IF Has(d, par)
         THEN RemoveWalk(Put(d, par, Get(d, par) - val), par, val)
         ELSE d

remove_from_parents(dir, d) == RemoveWalk(d, dir, Get(d, dir))

\* lines 83-84 as a whole: remove_from_parents for each path of order in turn
RECURSIVE ExclusivizeAll(_, _)
ExclusivizeAll(d, order) ==
    IF order = <<>> THEN d
    ELSE ExclusivizeAll(remove_from_parents(Head(order), d), Tail(order))

(***************************************************************************)
(* compute_branches                                                        *)
(***************************************************************************)
\* without the test "par != dir_": the root counts as its own parent
compute_branches_NoSelfTest(ds) ==
    {dirname(ds[n]) : n \in {m \in 1..Len(ds) :
        \E j \in 1..Len(ds) : ds[j] = dirname(ds[m])}}

\* "branches.add(dir_)" for "branches.add(par)": the children are collected
compute_branches_AddsChild(ds) ==
    {ds[n] : n \in {m \in 1..Len(ds) :
        /\ \E j \in 1..Len(ds) : ds[j] = dirname(ds[m])
        /\ dirname(ds[m]) # ds[m]}}

\* the test on the parent inverted: "par == dir_" for "par != dir_"
compute_branches_SelfOnly(ds) ==
    {dirname(ds[n]) : n \in {m \in 1..Len(ds) :
        /\ \E j \in 1..Len(ds) : ds[j] = dirname(ds[m])
        /\ dirname(ds[m]) = ds[m]}}

compute_branches(ds) ==
    {dirname(ds[n]) : n \in {m \in 1..Len(ds) :
        /\ \E j \in 1..Len(ds) : ds[j] = dirname(ds[m])
        /\ dirname(ds[m]) # ds[m]}}

(***************************************************************************)
(* the report selection of __main__                                        *)
(***************************************************************************)
\* insert e behind every element whose size is not larger (stable sort)
InsertBySize(s, e) ==
    LET n == Cardinality({m \in 1..Len(s) : s[m].v <= e.v}) IN
    SubSeq(s, 1, n) \o <<e>> \o SubSeq(s, n + 1, Len(s))

RECURSIVE SortBySize(_, _)
SortBySize(acc, s) ==
    IF s = <<>> THEN acc ELSE SortBySize(InsertBySize(acc, Head(s)), Tail(s))

\* "s > threshold" for "s >= threshold"
Selected_Strict(d, threshold) == SelectSeq(d, LAMBDA e : e.v > threshold)

Selected(d, threshold) == SelectSeq(d, LAMBDA e : e.v >= threshold)

report(d, threshold) == SortBySize(<<>>, Selected(d, threshold))

(***************************************************************************)
(* Inputs                                                                  *)
(***************************************************************************)
Raw(rel, comps) == [rel |-> rel, comps |-> comps]

\* paths of one tree, written canonically
TreePaths ==
    { Raw(FALSE, <<>>), Raw(FALSE, <<"a">>), Raw(FALSE, <<"a", "b">>),
      Raw(FALSE, <<"a", "ccc">>), Raw(FALSE, <<"a", "b", "c">>) }

\* several spellings of few paths: ".", "b/..", "/a/./b"
SpelledPaths ==
    { Raw(TRUE, <<".">>), Raw(TRUE, <<"b", "..">>), Raw(FALSE, <<"a", ".", "b">>) }

RECURSIVE str(_)
str(n) == IF n < 10 THEN <<Digits[n + 1]>>
          ELSE Append(str(n \div 10), Digits[(n % 10) + 1])

SizeStrings == {str(n) : n \in 0..MaxSize}

\* thresholds at and just above the largest input size
Thresholds == {MaxSize, MaxSize + 1}

RECURSIVE SeqsUpTo(_, _)
SeqsUpTo(S, n) ==
    IF n = 0 THEN {<<>>}
    ELSE LET shorter == SeqsUpTo(S, n - 1) IN
         shorter \cup {Append(s, x) : s \in {t \in shorter : Len(t) = n - 1}, x \in S}

Scenario == << <<str(100), Raw(FALSE, <<"a">>)>>,
               <<str(40), Raw(FALSE, <<"a", "b">>)>>,
               <<str(30), Raw(FALSE, <<"a", "c">>)>>,
               <<str(5), Raw(FALSE, <<"a", "c", "d">>)>> >>

\* trees of four entries: two sibling leaves below a parent below the root,
\* and two siblings of which one has a child of its own
CascadeShapes ==
    { <<Raw(FALSE, <<>>), Raw(FALSE, <<"a">>),
        Raw(FALSE, <<"a", "b">>), Raw(FALSE, <<"a", "ccc">>)>>,
      <<Raw(FALSE, <<"a">>), Raw(FALSE, <<"a", "ccc">>),
        Raw(FALSE, <<"a", "b">>), Raw(FALSE, <<"a", "b", "c">>)>> }

\* the shapes with every choice of sizes
CascadeInputs ==
    { [n \in 1..4 |-> <<sz[n], shape[n]>>] :
        sz \in [1..4 -> SizeStrings], shape \in CascadeShapes }

(***************************************************************************)
(* State machine                                                           *)
(***************************************************************************)
\* the locals of process_du_output before line 80
\* no two tuples name the same path
Distinct(ts) ==
    \A m, n \in 1..Len(ts) : abspath(ts[m][2]) = abspath(ts[n][2]) => m = n

Entry ==
    /\ pc = "normalize"
    /\ dirs = <<>>
    /\ todo = <<>>
    /\ exclusive = <<>>
    /\ processed = {}
    /\ unprocessed = <<>>
    /\ branches = {}
    /\ i = 1
    /\ dir_ = ROOT
    /\ to_prune = ROOT
    /\ value = 0
    /\ sorted_dirs = <<>>

\* process_du_output is entered with the tuples read and the threshold: paths
\* of the tree in every order, each named once; paths spelled in several
\* ways, repeated or not; the cascade shapes; the scenario of the test
Init ==
    /\ \/ /\ tuples \in {ts \in SeqsUpTo(SizeStrings \X TreePaths, MaxEntries) :
                            Distinct(ts)}
          /\ thresh \in Thresholds
       \/ /\ tuples \in SeqsUpTo(SizeStrings \X SpelledPaths, MaxEntries)
          /\ thresh \in Thresholds
       \/ /\ tuples \in CascadeInputs
          /\ thresh \in Thresholds
       \/ /\ tuples = Scenario
          /\ thresh = 20
    /\ Entry

\* the smallest and the largest size of the input
ExtremeSizes == {str(0), str(MaxSize)}

\* inputs without a repeated path, which give the mappings that line 80
\* builds over TreePaths in every order, with sizes at the ends of the range
InitDistinct ==
    /\ tuples \in {ts \in SeqsUpTo(ExtremeSizes \X TreePaths, MaxEntries) : Distinct(ts)}
    /\ thresh \in Thresholds
    /\ Entry

\* line 80, and the evaluation of sorted(...) that starts the loop of line 83
Normalize ==
    /\ pc = "normalize"
    /\ dirs' = BuildDirs(<<>>, tuples)
    /\ todo' = sorted_by_len_reverse(KeyList(dirs'))
    /\ IF todo' = <<>>
       THEN pc' = "scan" /\ exclusive' = dirs'
       ELSE pc' = "exclusivize" /\ UNCHANGED exclusive
    /\ UNCHANGED <<tuples, thresh, processed, unprocessed, branches, i,
                   dir_, to_prune, value, sorted_dirs>>

\* lines 83-84: one iteration of the Exclusivizer loop
Exclusivize ==
    /\ pc = "exclusivize"
    /\ dirs' = remove_from_parents(Head(todo), dirs)
    /\ todo' = Tail(todo)
    /\ IF todo' = <<>>
       THEN pc' = "scan" /\ exclusive' = dirs'
       ELSE pc' = "exclusivize" /\ UNCHANGED exclusive
    /\ UNCHANGED <<tuples, thresh, processed, unprocessed, branches, i,
                   dir_, to_prune, value, sorted_dirs>>

\* lines 88-92: the start of one scan of the Pruner
Scan ==
    /\ pc = "scan"
    /\ unprocessed' = SelectSeq(KeyList(dirs), LAMBDA p : p \notin processed)
    /\ IF unprocessed' = <<>>
       THEN pc' = "return" /\ UNCHANGED branches
       ELSE pc' = "for" /\ branches' = compute_branches(unprocessed')
    /\ i' = 1
    /\ UNCHANGED <<tuples, thresh, dirs, todo, exclusive, processed,
                   dir_, to_prune, value, sorted_dirs>>

\* the for loop of line 93 moves to its next element, or the scan ends
Advance ==
    /\ i' = i + 1
    /\ pc' = IF i < Len(unprocessed) THEN "for" ELSE "scan"

\* lines 95-96: a node with unprocessed children is passed over
Continue ==
    /\ pc = "for"
    /\ unprocessed[i] \in branches
    /\ Advance
    /\ UNCHANGED <<tuples, thresh, dirs, todo, exclusive, processed,
                   unprocessed, branches, dir_, to_prune, value, sorted_dirs>>

\* lines 97-98: the node is processed and kept
Keep ==
    /\ pc = "for"
    /\ unprocessed[i] \notin branches
    /\ ~(Get(dirs, unprocessed[i]) < thresh)
    /\ processed' = processed \cup {unprocessed[i]}
    /\ Advance
    /\ UNCHANGED <<tuples, thresh, dirs, todo, exclusive,
                   unprocessed, branches, dir_, to_prune, value, sorted_dirs>>

\* lines 97-100 and 36-37: the node is processed and prune_from_tree entered
Prune ==
    /\ pc = "for"
    /\ unprocessed[i] \notin branches
    /\ Get(dirs, unprocessed[i]) < thresh
    /\ processed' = processed \cup {unprocessed[i]}
    /\ value' = Get(dirs, unprocessed[i])
    /\ to_prune' = unprocessed[i]
    /\ dir_' = unprocessed[i]
    /\ pc' = "prune"
    /\ UNCHANGED <<tuples, thresh, dirs, todo, exclusive,
                   unprocessed, branches, i, sorted_dirs>>

\* the walk does not refuse at the root: the node is deleted all the same
RootPrune_Deletes ==
    /\ pc = "prune"
    /\ dirname(dir_) = dir_
    /\ dirs' = Del(dirs, to_prune)
    /\ Advance
    /\ UNCHANGED <<tuples, thresh, todo, exclusive, processed,
                   unprocessed, branches, dir_, to_prune, value, sorted_dirs>>

\* the exception is not caught: process_du_output ends with it
RootPrune_Uncaught ==
    /\ pc = "prune"
    /\ dirname(dir_) = dir_
    /\ pc' = "RootPruneException"
    /\ UNCHANGED <<tuples, thresh, dirs, todo, exclusive, processed, unprocessed,
                   branches, i, dir_, to_prune, value, sorted_dirs>>

\* lines 39-42 and 101-103: the walk is at the root; the exception is swallowed
RootPrune ==
    /\ pc = "prune"
    /\ dirname(dir_) = dir_
    /\ Advance
    /\ UNCHANGED <<tuples, thresh, dirs, todo, exclusive, processed,
                   unprocessed, branches, dir_, to_prune, value, sorted_dirs>>

\* the ancestor's size is overwritten ("=" for "+=")
Merge_Overwrite ==
    /\ pc = "prune"
    /\ dirname(dir_) # dir_
    /\ Has(dirs, dirname(dir_))
    /\ dirs' = Del(Put(dirs, dirname(dir_), value), to_prune)
    /\ Advance
    /\ UNCHANGED <<tuples, thresh, todo, exclusive, processed,
                   unprocessed, branches, dir_, to_prune, value, sorted_dirs>>

\* the walk's cursor is deleted ("del dirs[dir_]"), not the node to prune
Merge_DelCursor ==
    /\ pc = "prune"
    /\ dirname(dir_) # dir_
    /\ Has(dirs, dirname(dir_))
    /\ dirs' = Del(Put(dirs, dirname(dir_), Get(dirs, dirname(dir_)) + value),
                   dir_)
    /\ Advance
    /\ UNCHANGED <<tuples, thresh, todo, exclusive, processed,
                   unprocessed, branches, dir_, to_prune, value, sorted_dirs>>

\* lines 43-45 and 49: the parent is present; merge into it, delete the node
Merge ==
    /\ pc = "prune"
    /\ dirname(dir_) # dir_
    /\ Has(dirs, dirname(dir_))
    /\ dirs' = Del(Put(dirs, dirname(dir_), Get(dirs, dirname(dir_)) + value),
                   to_prune)
    /\ Advance
    /\ UNCHANGED <<tuples, thresh, todo, exclusive, processed,
                   unprocessed, branches, dir_, to_prune, value, sorted_dirs>>

\* an absent parent is created on the way up (a defaultdict-like "+=")
WalkUp_Creates ==
    /\ pc = "prune"
    /\ dirname(dir_) # dir_
    /\ ~Has(dirs, dirname(dir_))
    /\ dirs' = Del(Put(dirs, dirname(dir_), value), to_prune)
    /\ Advance
    /\ UNCHANGED <<tuples, thresh, todo, exclusive, processed,
                   unprocessed, branches, dir_, to_prune, value, sorted_dirs>>

\* lines 46-48: the parent is absent; the walk goes one level up
WalkUp ==
    /\ pc = "prune"
    /\ dirname(dir_) # dir_
    /\ ~Has(dirs, dirname(dir_))
    /\ dir_' = dirname(dir_)
    /\ UNCHANGED <<tuples, thresh, pc, dirs, todo, exclusive, processed,
                   unprocessed, branches, i, to_prune, value, sorted_dirs>>

\* lines 142-147: the report selection; max() of no entry raises ValueError
Report ==
    /\ pc = "return"
    /\ sorted_dirs' = report(dirs, thresh)
    /\ pc' = IF sorted_dirs' = <<>> THEN "ValueError" ELSE "print"
    /\ UNCHANGED <<tuples, thresh, dirs, todo, exclusive, processed,
                   unprocessed, branches, i, dir_, to_prune, value>>

(***************************************************************************)
(* process_du_output as a function of its input                            *)
(***************************************************************************)
\* lines 33-49: the walk of prune_from_tree; at the root the mapping is left
\* as it is (the exception is swallowed at lines 101-103)
RECURSIVE PruneWalk(_, _, _, _)
PruneWalk(d, cur, dir, val) ==
    LET par == dirname(cur) IN
    IF par = cur THEN d
    ELSE IF Has(d, par) THEN Del(Put(d, par, Get(d, par) + val), dir)
         ELSE PruneWalk(d, par, dir, val)

prune_from_tree(dir, d) == PruneWalk(d, dir, dir, Get(d, dir))

\* lines 93-103: the for loop of one scan, from its n-th element on
RECURSIVE ScanLoop(_, _, _, _, _, _)
ScanLoop(d, proc, us, br, th, n) ==
    IF n > Len(us) THEN [d |-> d, processed |-> proc]
    ELSE IF us[n] \in br THEN ScanLoop(d, proc, us, br, th, n + 1)
    ELSE IF Get(d, us[n]) < th
         THEN ScanLoop(prune_from_tree(us[n], d), proc \cup {us[n]},
                       us, br, th, n + 1)
         ELSE ScanLoop(d, proc \cup {us[n]}, us, br, th, n + 1)

\* lines 87-104: the scans of the Pruner until nothing is unprocessed
RECURSIVE PruneAll(_, _, _)
PruneAll(d, proc, th) ==
    LET us == SelectSeq(KeyList(d), LAMBDA p : p \notin proc) IN
    IF us = <<>> THEN d
    ELSE LET r == ScanLoop(d, proc, us, compute_branches(us), th, 1)
         IN  PruneAll(r.d, r.processed, th)

\* lines 77-104
process_du_output(ts, th) ==
    LET d == BuildDirs(<<>>, ts)
    IN  PruneAll(ExclusivizeAll(d, sorted_by_len_reverse(KeyList(d))), {}, th)

Next ==
    \/ Normalize
    \/ Exclusivize
    \/ Scan
    \/ Continue
    \/ Keep
    \/ Prune
    \/ RootPrune
    \/ Merge
    \/ WalkUp
    \/ Report

Spec == Init /\ [][Next]_vars

\* the program is one thread that runs to completion
FairSpec == InitDistinct /\ [][Next]_vars /\ WF_vars(Next)

TypeOK ==
    /\ pc \in {"normalize", "exclusivize", "scan", "for", "prune", "return",
               "print", "ValueError"}
    /\ processed \subseteq Keys(BuildDirs(<<>>, tuples))
    /\ Cardinality(Keys(dirs)) = Len(dirs)

(***************************************************************************)
(* Vocabulary of the properties                                            *)
(***************************************************************************)
\* a is a proper ancestor of p: a proper prefix of its components
ProperAncestor(a, p) == Len(a) < Len(p) /\ SubSeq(p, 1, Len(a)) = a

PresentAncestors(d, p) == {a \in Keys(d) : ProperAncestor(a, p)}

\* the deepest proper ancestor of p that is a key of d
NearestPresentAncestor(d, p) ==
    CHOOSE a \in PresentAncestors(d, p) :
        \A b \in PresentAncestors(d, p) : Len(b) <= Len(a)

RECURSIVE Total(_)
Total(d) == IF d = <<>> THEN 0 ELSE Head(d).v + Total(Tail(d))

\* the mapping built from the input: the cumulative sizes
cumulative == BuildDirs(<<>>, tuples)

RootMost(d) == SelectSeq(d, LAMBDA e : PresentAncestors(d, e.k) = {})

\* the entries of d whose nearest present proper ancestor is p
NearestBelow(d, p) ==
    SelectSeq(d, LAMBDA e : /\ PresentAncestors(d, e.k) # {}
                            /\ NearestPresentAncestor(d, e.k) = p)

Returned == pc \in {"return", "print", "ValueError"}

AfterExclusivizer == pc \notin {"normalize", "exclusivize"}

(***************************************************************************)
(* Properties                                                              *)
(***************************************************************************)

\* C1 (as claimed): when process_du_output returns, every entry other than
\* the filesystem root "/" has a size of at least the threshold.
C1_ThresholdClosure ==
    Returned => \A n \in 1..Len(dirs) : dirs[n].k # ROOT => dirs[n].v >= thresh

\* C2 (as claimed): after the Exclusivizer pass the sizes add up to the sum of
\* the cumulative sizes of the entries that have no present proper ancestor.
C2_Conservation ==
    AfterExclusivizer => Total(exclusive) = Total(RootMost(cumulative))

\* C3 (as claimed): after the Exclusivizer pass every entry holds its
\* cumulative size less the cumulative sizes of the entries whose nearest
\* present proper ancestor it is, absent intermediate paths passed over.
C3_NoDoubleCounting ==
    AfterExclusivizer =>
        \A n \in 1..Len(exclusive) :
            exclusive[n].v = Get(cumulative, exclusive[n].k)
                             - Total(NearestBelow(cumulative, exclusive[n].k))

\* C4: when the input holds the root "/", the root is a key of the mapping in
\* every state of the Exclusivizer and of the Pruner and in the result,
\* whatever its size.
C4_RootNeverRemoved ==
    (pc # "normalize" /\ Has(cumulative, ROOT)) => Has(dirs, ROOT)

\* C4 witness: the run is over, the root was below the threshold when it was
\* processed, and it is still there.
C4_Witness ==
    /\ Returned
    /\ Has(dirs, ROOT)
    /\ ROOT \in processed
    /\ to_prune = ROOT
    /\ Get(dirs, ROOT) < thresh
    /\ Len(cumulative) > 1

\* C5 (as claimed): when the input holds the root, the root is among the
\* entries selected for the report, whatever its size.
C5_RootInReport ==
    (pc \in {"print", "ValueError"} /\ Has(cumulative, ROOT)) =>
        \E n \in 1..Len(sorted_dirs) : sorted_dirs[n].k = ROOT

\* C6 (as claimed): no node is marked Processed while one of its present
\* proper descendants, at any depth, is still Unprocessed.
C6_ChildrenBeforeParents ==
    \A p \in processed : \A q \in Keys(dirs) :
        ProperAncestor(p, q) => q \in processed

\* C7: no step of the Pruner (a merge, a swallowed root-prune attempt, a keep,
\* a step of the walk or of the scan) changes the sum of the sizes, and the
\* sizes of the result add up to the sum right after the Exclusivizer pass.
C7_PruneConservation ==
    /\ [][(pc \in {"scan", "for", "prune"}) => Total(dirs') = Total(dirs)]_vars
    /\ [](Returned => Total(dirs) = Total(exclusive))

\* C7 witness: the run is over and nodes with sizes other than zero were
\* merged along the way.
C7_Witness ==
    /\ Returned
    /\ Len(dirs) < Len(exclusive)
    /\ value # 0
    /\ ~Has(dirs, to_prune)
    /\ Total(dirs) # 0

\* the call of prune_from_tree in progress returns in this step
PruneReturns == pc = "prune" /\ pc' # "prune"

\* C8: a successful prune_from_tree(d) removes exactly the key d, adds d's
\* size at that moment to the nearest proper ancestor of d present at that
\* moment, and leaves every other entry's key, size and position unchanged.
C8_MergeTargetAndFrame ==
    [][(PruneReturns /\ PresentAncestors(dirs, to_prune) # {}) =>
         LET anc == NearestPresentAncestor(dirs, to_prune) IN
         /\ Has(dirs, to_prune)
         /\ KeyList(dirs') = SelectSeq(KeyList(dirs), LAMBDA p : p # to_prune)
         /\ Get(dirs', anc) = Get(dirs, anc) + Get(dirs, to_prune)
         /\ \A p \in Keys(dirs) \ {to_prune, anc} : Get(dirs', p) = Get(dirs, p)
      ]_vars

\* C8 witness: a node of size other than zero has just been merged into an
\* ancestor that is not its parent, the parent being absent.
C8_Witness ==
    /\ pc \in {"for", "scan"}
    /\ to_prune \in processed
    /\ ~Has(dirs, to_prune)
    /\ dir_ # to_prune
    /\ Has(dirs, dirname(dir_))
    /\ value # 0

\* C9: the Pruner terminates with no Unprocessed node left; every scan that
\* starts with an Unprocessed node marks at least one node Processed; every
\* step of the upward walk of prune_from_tree moves to a shorter path, and
\* the walk ends at a present ancestor or at the root.
C9_PrunerTerminates ==
    /\ <>(pc = "return" /\ Keys(dirs) \subseteq processed)
    /\ [][(pc = "scan" =>
             (\A n \in 1..Len(unprocessed') : unprocessed'[n] \notin processed'))
          /\ ((pc \in {"for", "prune"} /\ pc' = "scan") =>
             (\E n \in 1..Len(unprocessed) : unprocessed[n] \in processed'))
         ]_vars
    /\ [][((pc = "prune" /\ pc' = "prune") => Len(dir_') < Len(dir_))
          /\ (PruneReturns => (dir_ = ROOT \/ Has(dirs, dirname(dir_))))
         ]_vars

\* C9 witness: the run is over after more than one scan, one of whose walks
\* passed over an absent parent.
C9_Witness ==
    /\ pc = "return"
    /\ Len(cumulative) > 2
    /\ Keys(dirs) \subseteq processed
    /\ dir_ # to_prune

\* C10: a call of prune_from_tree on a node without present proper ancestor
\* changes no size and removes no key; the exception is swallowed: the node
\* stays in the mapping, marked Processed, the for loop goes on with its next
\* element, and every node left in the result has been processed.
C10_RootPruneNoOp ==
    /\ [][(pc = "prune" /\ PresentAncestors(dirs, to_prune) = {}) =>
            /\ dirs' = dirs
            /\ processed' = processed
            /\ Has(dirs', to_prune) /\ to_prune \in processed'
            /\ pc' \in {"prune", "for", "scan"}
            /\ pc' # "prune" => i' = i + 1 /\ unprocessed' = unprocessed
         ]_vars
    /\ [](Returned =>
            /\ Keys(dirs) \subseteq processed
            /\ \A n \in 1..Len(exclusive) :
                 PresentAncestors(exclusive, exclusive[n].k) = {}
                     => Has(dirs, exclusive[n].k))

\* C10 witness: a root-prune attempt has just been swallowed in the middle of
\* a scan: the node is still in the mapping, marked Processed, and the next
\* element of the scan is a node that is yet to be processed.
C10_Witness ==
    /\ pc = "for"
    /\ dir_ = ROOT
    /\ to_prune \in processed
    /\ Has(dirs, to_prune)
    /\ unprocessed[i] \notin processed
    /\ unprocessed[i] \notin branches

\* the present children of p, and its present proper descendants
Kids(d, p) == {q \in Keys(d) : ProperAncestor(p, q) /\ Len(q) = Len(p) + 1}

Below(d, p) == {q \in Keys(d) : ProperAncestor(p, q)}

TotalOf(d, S) == Total(SelectSeq(d, LAMBDA e : e.k \in S))

Range(s) == {s[n] : n \in 1..Len(s)}

\* every present child of p is below the threshold when it is evaluated:
\* below p no parent is absent, no size is negative, and the sizes of each
\* child's subtree add up to less than the threshold
SmallKids(p) ==
    /\ Kids(exclusive, p) # {}
    /\ \A q \in Below(exclusive, p) :
         Has(exclusive, SubSeq(q, 1, Len(q) - 1)) /\ Get(exclusive, q) >= 0
    /\ \A q \in Kids(exclusive, p) :
         TotalOf(exclusive, {q} \cup Below(exclusive, q)) < thresh

\* ... and the children are leaves, p having no other descendant
SmallLeafKids(p) == SmallKids(p) /\ Below(exclusive, p) = Kids(exclusive, p)

\* the size of p with the sizes below it merged into it
MergedSize(p) == Get(exclusive, p) + TotalOf(exclusive, Below(exclusive, p))

\* the cascade at p: the children are merged within one scan; p is processed
\* in a later scan, with the merged size; below the threshold and with a
\* present proper ancestor it is merged into the nearest one
CascadeAt(p) ==
    /\ pc = "scan" => \/ Kids(exclusive, p) \subseteq Keys(dirs)
                      \/ Kids(exclusive, p) \cap Keys(dirs) = {}
    /\ p \in processed =>
         /\ Kids(exclusive, p) \cap Keys(dirs) = {}
         /\ Kids(exclusive, p) \cap Range(unprocessed) = {}
         /\ Has(dirs, p) => Get(dirs, p) = MergedSize(p)
    /\ (pc = "prune" /\ to_prune = p) => value = MergedSize(p)
    /\ (pc \in {"for", "scan"} /\ to_prune = p /\ p \in processed /\ ~Has(dirs, p)) =>
         /\ PresentAncestors(dirs, p) # {}
         /\ dirname(dir_) = NearestPresentAncestor(dirs, p)
    /\ Returned =>
         /\ Kids(exclusive, p) \cap Keys(dirs) = {}
         /\ ~Has(dirs, p) <=>
              (MergedSize(p) < thresh /\ PresentAncestors(exclusive, p) # {})

\* C11 (as claimed): whenever all present children of a node are below the
\* threshold, they are merged into it in one scan, and the node is processed
\* later with the merged size and merged upward if still below the threshold.
C11_AsClaimed ==
    \A p \in Keys(exclusive) : SmallKids(p) => CascadeAt(p)

\* C11 (amended): whenever all present children of a node are leaves below
\* the threshold, they are merged into it in one scan; the node is processed
\* in a later scan with its size including every merged size, and if it is
\* still below the threshold and has a present proper ancestor it is merged
\* into the nearest one.
C11_TransitivePruning ==
    \A p \in Keys(exclusive) : SmallLeafKids(p) => CascadeAt(p)

\* C11 witness: two sibling leaves were merged into their parent, and the
\* parent, still below the threshold, into its own ancestor.
C11_Witness ==
    /\ Returned
    /\ \E p \in Keys(exclusive) :
         /\ SmallLeafKids(p)
         /\ Cardinality(Kids(exclusive, p)) = 2
         /\ MergedSize(p) > Get(exclusive, p)
         /\ ~Has(dirs, p)

\* a mapping as the set of its (path, size) pairs
AsMap(d) == {<<d[n].k, d[n].v>> : n \in 1..Len(d)}

\* C12: for the input [(100,/a),(40,/a/b),(30,/a/c),(5,/a/c/d)] and the
\* threshold 20 the mapping after the Exclusivizer pass is exactly
\* {/a/c/d: 5, /a/c: 25, /a/b: 40, /a: 30} and the returned mapping is
\* exactly {/a: 30, /a/b: 40, /a/c: 30}.
C12_WorkedScenario ==
    (tuples = Scenario /\ thresh = 20) =>
        /\ AfterExclusivizer =>
             /\ Len(exclusive) = 4
             /\ AsMap(exclusive) = { <<<<"a", "c", "d">>, 5>>, <<<<"a", "c">>, 25>>,
                                     <<<<"a", "b">>, 40>>, <<<<"a">>, 30>> }
        /\ Returned =>
             /\ Len(dirs) = 3
             /\ AsMap(dirs) = { <<<<"a">>, 30>>, <<<<"a", "b">>, 40>>,
                                <<<<"a", "c">>, 30>> }

\* C12 witness: the scenario has run to its end.
C12_Witness == tuples = Scenario /\ thresh = 20 /\ pc = "return" /\ Len(dirs) = 3

\* C13: the mapping built on line 80 has exactly one entry for every distinct
\* canonical path of the input, its size being that of the last pair of the
\* sequence that canonicalizes to the path; duplicates raise no error.
C13_LastWriteWins ==
    [][(pc = "normalize") =>
         /\ pc' \in {"exclusivize", "scan"}
         /\ Keys(dirs') = {abspath(tuples[n][2]) : n \in 1..Len(tuples)}
         /\ Len(dirs') = Cardinality(Keys(dirs'))
         /\ \A n \in 1..Len(tuples) :
              (\A m \in (n + 1)..Len(tuples) :
                   abspath(tuples[m][2]) # abspath(tuples[n][2]))
              => Get(dirs', abspath(tuples[n][2])) = int(tuples[n][1])
      ]_vars

\* C13 witness: line 80 has just run on an input in which two pairs with
\* different spellings of one path carry different sizes.
C13_Witness ==
    /\ pc = "exclusivize"
    /\ Len(todo) = Len(dirs)
    /\ \E m, n \in 1..Len(tuples) :
         /\ m < n
         /\ tuples[m][2] # tuples[n][2]
         /\ abspath(tuples[m][2]) = abspath(tuples[n][2])
         /\ tuples[m][1] # tuples[n][1]
         /\ \A l \in (n + 1)..Len(tuples) :
              abspath(tuples[l][2]) # abspath(tuples[n][2])
         /\ Get(dirs, abspath(tuples[n][2])) = int(tuples[n][1])

\* C14: of the final mapping every non-root entry is selected for the report
\* if and only if its size is at least the threshold, every selected entry
\* appears exactly once, and the selection is in non-decreasing order of size.
C14_ReportSelection ==
    (pc \in {"print", "ValueError"}) =>
        /\ \A n \in 1..Len(dirs) :
             dirs[n].k # ROOT =>
                 ((\E m \in 1..Len(sorted_dirs) : sorted_dirs[m] = dirs[n])
                      <=> dirs[n].v >= thresh)
        /\ \A m \in 1..Len(sorted_dirs) :
             \E n \in 1..Len(dirs) : dirs[n] = sorted_dirs[m]
        /\ \A m, n \in 1..Len(sorted_dirs) :
             /\ sorted_dirs[m].k = sorted_dirs[n].k => m = n
             /\ m < n => sorted_dirs[m].v <= sorted_dirs[n].v

\* C14 witness: a report of several entries of different sizes whose order is
\* not the order of the mapping.
C14_Witness ==
    /\ pc = "print"
    /\ Len(sorted_dirs) >= 2
    /\ sorted_dirs # SelectSeq(dirs, LAMBDA e : e.v >= thresh)
    /\ sorted_dirs[1].v < sorted_dirs[Len(sorted_dirs)].v

\* q is a child of p: p is the derived parent of another path q
ChildOf(q, p) == ProperAncestor(p, q) /\ Len(q) = Len(p) + 1

\* C15: a scan starts from exactly the present Unprocessed entries; a node is
\* marked Processed only in a scan at whose start none of them is its child;
\* so a node and one of its present children are never processed in one scan.
C15_DirectChildrenGating ==
    /\ [][(pc = "scan" => Range(unprocessed') = Keys(dirs) \ processed)
          /\ (\A p \in processed' \ processed :
                 /\ p \in Range(unprocessed)
                 /\ \A q \in Range(unprocessed) : ~ChildOf(q, p))
         ]_vars
    /\ [](\A p, q \in Range(unprocessed) \cap processed : ~ChildOf(q, p))

\* C15 witness: a node is processed in a scan later than the scan of its
\* child, the child having been kept.
C15_Witness ==
    /\ pc \in {"for", "prune"}
    /\ \E p \in Range(unprocessed) \cap processed :
         \E q \in Keys(dirs) :
             ChildOf(q, p) /\ q \in processed /\ q \notin Range(unprocessed)

\* C16: in the order of the Exclusivizer no entry comes before one of its
\* present proper descendants; a step subtracts the size of the entry it
\* processes from proper ancestors of that entry only, and that size is the
\* one the entry has when the pass is over; the size of an entry that has been
\* processed does not change any more.
C16_ExclusivizerOrder ==
    /\ [](pc = "exclusivize" =>
            /\ \A m, n \in 1..Len(todo) :
                   m < n => ~ProperAncestor(todo[m], todo[n])
            /\ \A q \in Keys(dirs) :
                   ProperAncestor(Head(todo), q) => q \notin Range(todo)
            /\ \A p \in (Keys(dirs) \ Range(todo)) \cup {Head(todo)} :
                   Get(dirs, p) = Get(ExclusivizeAll(dirs, todo), p))
    /\ [][(pc = "exclusivize") =>
            /\ \A p \in (Keys(dirs) \ Range(todo)) \cup {Head(todo)} :
                   Get(dirs', p) = Get(dirs, p)
            /\ \A a \in Keys(dirs) :
                   \/ Get(dirs', a) = Get(dirs, a)
                   \/ /\ ProperAncestor(a, Head(todo))
                      /\ Get(dirs', a) = Get(dirs, a) - Get(dirs, Head(todo))
         ]_vars

\* C16 witness: the entry about to be processed has already been reduced by
\* a descendant and has a present parent to reduce in its turn.
C16_Witness ==
    /\ pc = "exclusivize"
    /\ Has(dirs, dirname(Head(todo)))
    /\ dirname(Head(todo)) # Head(todo)
    /\ Get(dirs, Head(todo)) # Get(cumulative, Head(todo))
    /\ Get(dirs, Head(todo)) # 0

\* the function process_du_output computes what the steps compute
ResultIsFunction == Returned => dirs = process_du_output(tuples, thresh)

\* the sequences that hold the elements of s in another order
Reorderings(s) ==
    {[n \in 1..Len(s) |-> s[f[n]]] :
        f \in {g \in [1..Len(s) -> 1..Len(s)] :
                  \A m, n \in 1..Len(s) : g[m] = g[n] => m = n}}

\* C17 (as claimed): for an input without a repeated path, every permutation
\* of the input gives the same result, keys and sizes, at the same threshold.
C17_OrderIndependence ==
    (pc = "return" /\ Distinct(tuples)) =>
        \A ts \in Reorderings(tuples) :
            AsMap(process_du_output(ts, thresh)) = AsMap(dirs)

\* the orders of the keys of d that are non-increasing in path length
NonIncreasingOrders(d) ==
    {o \in Reorderings(KeyList(d)) :
        \A m, n \in 1..Len(o) : m < n => len(o[m]) >= len(o[n])}

\* C18: the mapping right after the Exclusivizer pass is the one that every
\* processing order non-increasing in path length gives, whatever the order
\* of paths of equal length.
C18_TieOrderIndependence ==
    (pc = "scan" /\ processed = {}) =>
        \A o \in NonIncreasingOrders(cumulative) :
            ExclusivizeAll(cumulative, o) = dirs

\* C18 witness: two paths of equal length, each with its parent present and a
\* size other than zero, under a common ancestor that both have reduced.
C18_Witness ==
    /\ pc = "scan" /\ processed = {}
    /\ \E p, q \in Keys(dirs) :
         /\ p # q /\ len(p) = len(q)
         /\ Get(cumulative, p) # 0 /\ Get(cumulative, q) # 0
         /\ Has(dirs, dirname(p)) /\ Has(dirs, dirname(q))
         /\ ProperAncestor(dirname(p), q)
         /\ Get(dirs, dirname(p))
              = Get(cumulative, dirname(p)) - Get(cumulative, p) - Get(cumulative, q)
    /\ Cardinality(NonIncreasingOrders(cumulative)) > 1

\* C19: the Exclusivizer leaves the keys as they are; a step of the Pruner
\* or of the report only removes keys, so that a removed path does not come
\* back and every key is a path of the normalized input; a removed path has
\* been processed; the set of processed nodes only grows, by the one node,
\* not processed before, that the step compares with the threshold; when the
\* Pruner returns every path of the normalized input has been processed.
C19_EntryLifecycle ==
    /\ [][/\ (pc = "exclusivize") => KeyList(dirs') = KeyList(dirs)
          /\ (pc # "normalize") => Keys(dirs') \subseteq Keys(dirs)
          /\ processed \subseteq processed'
          /\ (pc = "for" /\ unprocessed[i] \notin branches) =>
                /\ unprocessed[i] \notin processed
                /\ processed' = processed \cup {unprocessed[i]}
          /\ ~(pc = "for" /\ unprocessed[i] \notin branches) =>
                processed' = processed
         ]_vars
    /\ [](pc # "normalize" =>
            /\ Keys(dirs) \subseteq Keys(cumulative)
            /\ Keys(cumulative) \ Keys(dirs) \subseteq processed
            /\ processed \subseteq Keys(cumulative))
    /\ [](Returned => processed = Keys(cumulative))

\* C19 witness: the run is over; sizes were changed by the Exclusivizer and
\* by a merge, a path was removed and another one kept besides the root.
C19_Witness ==
    /\ Returned
    /\ AsMap(exclusive) # AsMap(cumulative)
    /\ Keys(dirs) # Keys(cumulative)
    /\ \E p \in Keys(dirs) : p # ROOT /\ Get(dirs, p) # Get(exclusive, p)

====
